---- MODULE Spec2Model ----
(***************************************************************************)
(* The All Assist dispatch backend (src/main.py): provider presence, the   *)
(* nearby query, request creation with nearest-provider matching, and the  *)
(* request status endpoint, as concurrent handlers over a shared document  *)
(* store.                                                                  *)
(*                                                                         *)
(* Handlers are FastAPI "def" endpoints, which the framework runs on a     *)
(* thread pool: two handlers may interleave between any two store calls.   *)
(* A handler is therefore a sequence of steps, one per store call that     *)
(* another handler can observe.                                            *)
(*                                                                         *)
(* Numbers: a coordinate is a position in metres along one meridian (all   *)
(* providers and pickups share a longitude), so the haversine distance of  *)
(* two coordinates is the absolute difference of their positions.  A       *)
(* distance is an integer number of metres; round(d, 2) on kilometres is   *)
(* rounding to a multiple of 10 metres.  A distance ending in 5 m is not   *)
(* a tie for round(): the float distance_km returns lies just above or     *)
(* just below the decimal, by its representation error, and round() goes   *)
(* that way.  The metre count does not carry that error, so which way is   *)
(* fixed per distance but unknown (roundsUp).                              *)
(***************************************************************************)
EXTENDS Integers, Sequences, FiniteSets, TLC

\* ---------------------------------------------------------------- bounds
MaxRequests == 2
MaxProfiles == 2
MaxApplications == 2
MaxLifecycleRequests == 1

\* ------------------------------------------------------------- constants
\* providers_nearby's default radius_km = 30.0, in metres.
DefaultRadius == 30000
\* A profile document without lat/lng (p.get("lat") is None).
NoCoord == -1
\* Python's None, for the string-valued fields and arguments.
None == "None"

\* The handlers that can be in flight at once: two pool threads.
Threads == {"t1", "t2"}

\* The user collection: fixed, every user has its mirrored "id".
Motorists == {"m1", "m2"}
Providers == {"p1", "p2"}
Admins == {"a1"}
Users == Motorists \cup Providers \cup Admins

role(u) == IF u \in Motorists THEN "motorist"
           ELSE IF u \in Providers THEN "provider" ELSE "admin"

\* Inputs.
Positions == {1001, 1004, 30004}
EtaPositions == {1004, 1797, 1804, 2395, 2397, 2404, 29997}
Pickups == {0}
PresenceStatuses == {"offline", "online", "busy"}
RequestStatuses ==
    {"pending", "assigned", "enroute", "in_progress", "completed", "cancelled"}
\* A slip of the parameter's type: every request status is accepted.
TargetStatuses_any == RequestStatuses
TargetStatuses == {"enroute", "in_progress", "completed", "cancelled"}
RequestServiceTypes == {"tow"}
ApplicationServiceTypes == {<<"tow">>}
ApplicationDecisions == {"approved", "rejected"}

(***************************************************************************)
(* providerprofile, servicerequest, providerapplication: the collections,  *)
(*   each a sequence of documents in insertion order; a document's id is   *)
(*   its position.  A profile that provider_status created has no          *)
(*   service_types key, which every reader takes as the empty list.        *)
(* th[t]: the handler thread t runs.  pc is its place ("idle" between      *)
(*   calls); user, req, arg, lat, radius are the call's caller and         *)
(*   arguments (arg: the status or service type; lat: the reported,        *)
(*   pickup or origin position); prof, seen and nearby are the handler's   *)
(*   locals (the profile found, the status of the request read, the        *)
(*   nearby list); result is the last call's HTTP result.                  *)
(* response[r]: what the create_request call that inserted request r       *)
(*   returned (returned, provider_id, eta_min), with two history fields:   *)
(*   pool, the user ids of the nearby list it read, and rival, the         *)
(*   request of the call it raced with.                                    *)
(* roundsUp[d]: for a distance d ending in 5 m, whether the float that     *)
(*   distance_km returns for it lies above the decimal, so that            *)
(*   round(d, 2) goes up; never written.                                   *)
(***************************************************************************)
VARIABLES providerprofile, servicerequest, providerapplication, th, response,
          roundsUp

vars == <<providerprofile, servicerequest, providerapplication, th, response,
          roundsUp>>

\* ------------------------------------------------------------ pure helpers
Max(a, b) == IF a >= b THEN a ELSE b

Abs(a) == IF a >= 0 THEN a ELSE 0 - a

\* x in list
Contains(list, x) == \E i \in 1..Len(list) : list[i] = x

\* Python truthiness of an Optional[str]
Truthy(s) == s # None /\ s # ""

\* distance_km(a, b), in metres, for two positions on one meridian
distance_km(a, b) == Abs(a - b)

\* round(d, 2) of a distance in km: to a multiple of 10 m; for a distance
\* ending in 5 m, up when the float lies above the decimal, else down
round2(d, up) ==
    LET q == d \div 10
        r == d % 10
    IN  IF r < 5 THEN 10 * q
        ELSE IF r > 5 THEN 10 * (q + 1)
        ELSE IF up THEN 10 * (q + 1) ELSE 10 * q

\* round(d, 2) of the distance the code computed for d metres
Rounded(d) ==
    IF d % 10 = 5 THEN round2(d, roundsUp[d]) ELSE round2(d, FALSE)

\* list.sort(key=...) is stable: an entry goes after every entry whose key is
\* less than or equal to its own.
RECURSIVE InsertByKey(_, _)
InsertByKey(s, x) ==
    IF s = <<>> THEN <<x>>
    ELSE IF s[Len(s)].distance_km <= x.distance_km THEN Append(s, x)
    ELSE Append(InsertByKey(SubSeq(s, 1, Len(s) - 1), x), s[Len(s)])

RECURSIVE SortByDistance(_)
SortByDistance(s) ==
    IF s = <<>> THEN <<>>
    ELSE InsertByKey(SortByDistance(SubSeq(s, 1, Len(s) - 1)), s[Len(s)])

\* A slip of the radius test: the rounded distance is compared.
Eligible_rounded(p, origin, service_type, radius_km) ==
    /\ p.status = "online"
    /\ ~(Truthy(service_type) /\ ~Contains(p.service_types, service_type))
    /\ p.lat # NoCoord
    /\ Rounded(distance_km(origin, p.lat)) <= radius_km

\* A slip of the loop body: a profile without coordinates is not skipped.
Eligible_unlocated(p, origin, service_type, radius_km) ==
    /\ p.status = "online"
    /\ ~(Truthy(service_type) /\ ~Contains(p.service_types, service_type))
    /\ distance_km(origin, p.lat) <= radius_km

\* the loop body's three tests of providers_nearby, for one profile document
Eligible(p, origin, service_type, radius_km) ==
    /\ p.status = "online"
    /\ ~(Truthy(service_type) /\ ~Contains(p.service_types, service_type))
    /\ p.lat # NoCoord
    /\ distance_km(origin, p.lat) <= radius_km

\* A slip of the entry: the distance is reported as computed, not rounded.
NearbyEntry_unrounded(p, origin) ==
    [user_id |-> p.user_id, lat |-> p.lat,
     distance_km |-> distance_km(origin, p.lat)]

NearbyEntry(p, origin) ==
    [user_id |-> p.user_id, lat |-> p.lat,
     distance_km |-> Rounded(distance_km(origin, p.lat))]

\* providers_nearby(lat, lng, service_type, radius_km)["providers"]
providers_nearby(profiles, origin, service_type, radius_km) ==
    LET kept == SelectSeq(profiles,
                    LAMBDA p : Eligible(p, origin, service_type, radius_km))
        results == [i \in 1..Len(kept) |-> NearbyEntry(kept[i], origin)]
    IN  SortByDistance(results)

\* max(3, int(chosen["distance_km"] / 0.6))
eta_min(d) == Max(3, d \div 600)

\* ------------------------------------------------------------ store helpers
\* find_one({"user_id": u}): index of the first profile of user u, 0 if none
FindProfile(profiles, u) ==
    IF \E i \in 1..Len(profiles) : profiles[i].user_id = u
    THEN CHOOSE i \in 1..Len(profiles) :
            /\ profiles[i].user_id = u
            /\ \A j \in 1..(i - 1) : profiles[j].user_id # u
    ELSE 0

\* find_one({"id": request_id}): index of the request, 0 if none
FindRequest(requests, request_id) ==
    IF request_id \in 1..Len(requests) THEN request_id ELSE 0

\* create_document(collection, doc): append, the new id is the position
create_document(collection, doc) == Append(collection, doc)

Idle(res) ==
    [pc |-> "idle", user |-> None, req |-> 0, arg |-> None, lat |-> NoCoord,
     radius |-> 0, prof |-> 0, seen |-> None, nearby |-> <<>>, result |-> res]

NoResponse ==
    [returned |-> FALSE, provider_id |-> None, eta_min |-> 0,
     pool |-> <<>>, rival |-> 0]

\* th with thread t's record replaced
Set(t, rec) == [th EXCEPT ![t] = rec]

Return(t, res) == Set(t, Idle(res))

\* threads that have read "no profile" and will create one
Creators == {t \in Threads : \/ th[t].pc = "as_create"
                             \/ th[t].pc = "ps_write" /\ th[t].prof = 0}

\* threads that have been handed a create_request call and not inserted yet
Inserters == {t \in Threads : th[t].pc = "cr_start"}

\* ------------------------------------------------- POST /providers/apply
provider_apply(t, user, service_types) ==
    /\ th[t].pc = "idle"
    /\ IF role(user) \notin {"provider", "admin"}
       THEN /\ th' = Return(t, "403 Only providers can apply")
            /\ UNCHANGED providerapplication
       ELSE /\ Len(providerapplication) < MaxApplications
            /\ providerapplication' = create_document(providerapplication,
                   [user_id |-> user, service_types |-> service_types,
                    status |-> "pending"])
            /\ th' = Return(t, "ok")
    /\ UNCHANGED <<providerprofile, servicerequest, response, roundsUp>>

\* ------------------------------ POST /admin/applications/{app_id}/status
\* The role check and update_one({"id": app_id}, {"$set": {"status": status}}),
\* which matches nothing when no application has the id.
admin_set_application_status(t, user, app_id, status) ==
    /\ th[t].pc = "idle"
    /\ IF role(user) # "admin"
       THEN /\ th' = Return(t, "403 Admins only")
            /\ UNCHANGED providerapplication
       ELSE /\ providerapplication' =
                  IF app_id \in 1..Len(providerapplication)
                  THEN [providerapplication EXCEPT ![app_id].status = status]
                  ELSE providerapplication
            /\ th' = Set(t, [Idle("none") EXCEPT
                               !.pc = "as_find", !.user = user,
                               !.req = app_id, !.arg = status])
    /\ UNCHANGED <<providerprofile, servicerequest, response, roundsUp>>

\* app_doc = find_one({"id": app_id}) and the test of the status argument:
\* an application inserted since the update is found here.
admin_find_application(t) ==
    /\ th[t].pc = "as_find"
    /\ IF th[t].arg = "approved" /\ th[t].req \in 1..Len(providerapplication)
       THEN th' = Set(t, [th[t] EXCEPT !.pc = "as_profile"])
       ELSE th' = Return(t, "ok")
    /\ UNCHANGED <<providerprofile, servicerequest, providerapplication,
                   response, roundsUp>>

\* prof = find_one({"user_id": app_doc.get("user_id")}); the application's
\* user_id and service_types never change once inserted, so app_doc is
\* read from the collection.
admin_find_profile(t) ==
    /\ th[t].pc = "as_profile"
    /\ IF FindProfile(providerprofile,
                      providerapplication[th[t].req].user_id) = 0
       THEN /\ Len(providerprofile) + Cardinality(Creators) < MaxProfiles
            /\ th' = Set(t, [th[t] EXCEPT !.pc = "as_create"])
       ELSE th' = Return(t, "ok")
    /\ UNCHANGED <<providerprofile, servicerequest, providerapplication,
                   response, roundsUp>>

\* create_document("providerprofile", {...status offline, service_types})
admin_create_profile(t) ==
    /\ th[t].pc = "as_create"
    /\ providerprofile' = create_document(providerprofile,
           [user_id |-> providerapplication[th[t].req].user_id,
            status |-> "offline", lat |-> NoCoord,
            service_types |-> providerapplication[th[t].req].service_types])
    /\ th' = Return(t, "ok")
    /\ UNCHANGED <<servicerequest, providerapplication, response, roundsUp>>

\* ------------------------------------------------ POST /providers/status
\* The role check and find_one({"user_id": ...}).
provider_status(t, user, status, lat) ==
    /\ th[t].pc = "idle"
    /\ IF role(user) \notin {"provider", "admin"}
       THEN th' = Return(t, "403 Only providers can set status")
       ELSE /\ \/ FindProfile(providerprofile, user) # 0
               \/ Len(providerprofile) + Cardinality(Creators) < MaxProfiles
            /\ th' = Set(t, [Idle("none") EXCEPT
                               !.pc = "ps_write", !.user = user,
                               !.arg = status, !.lat = lat,
                               !.prof = FindProfile(providerprofile, user)])
    /\ UNCHANGED <<providerprofile, servicerequest, providerapplication,
                   response, roundsUp>>

\* update_one({"_id": profile["_id"]}, {"$set": data}) or create_document:
\* data holds lat/lng only when the payload gave both.
provider_status_write(t) ==
    /\ th[t].pc = "ps_write"
    /\ LET c == th[t] IN
       IF c.prof # 0
       THEN providerprofile' =
              [providerprofile EXCEPT ![c.prof] =
                 [@ EXCEPT !.user_id = c.user, !.status = c.arg,
                           !.lat = IF c.lat # NoCoord THEN c.lat ELSE @]]
       ELSE providerprofile' = create_document(providerprofile,
              [user_id |-> c.user, status |-> c.arg, lat |-> c.lat,
               service_types |-> <<>>])
    /\ th' = Return(t, "ok")
    /\ UNCHANGED <<servicerequest, providerapplication, response, roundsUp>>

\* A slip of the endpoint: the providers it returns are marked busy.
providers_nearby_call_marking(t, origin, service_type, radius_km) ==
    /\ th[t].pc = "idle"
    /\ th' = Set(t, [Idle("200 providers") EXCEPT
                       !.lat = origin, !.arg = service_type,
                       !.radius = radius_km,
                       !.nearby = providers_nearby(providerprofile, origin,
                                                   service_type, radius_km)])
    /\ providerprofile' =
          [k \in DOMAIN providerprofile |->
              IF Eligible(providerprofile[k], origin, service_type, radius_km)
              THEN [providerprofile[k] EXCEPT !.status = "busy"]
              ELSE providerprofile[k]]
    /\ UNCHANGED <<servicerequest, providerapplication, response, roundsUp>>

\* -------------------------------- GET /providers/nearby (the endpoint)
\* A call of the endpoint by any client: it reads and returns, no store write.
providers_nearby_call(t, origin, service_type, radius_km) ==
    /\ th[t].pc = "idle"
    /\ th' = Set(t, [Idle("200 providers") EXCEPT
                       !.lat = origin, !.arg = service_type,
                       !.radius = radius_km,
                       !.nearby = providers_nearby(providerprofile, origin,
                                                   service_type, radius_km)])
    /\ UNCHANGED <<providerprofile, servicerequest, providerapplication,
                   response, roundsUp>>

\* ------------------------------------------------------- POST /requests
\* The call arrives: payload and caller are bound.
create_request_call(t, user, service_type, pickup) ==
    /\ th[t].pc = "idle"
    /\ th' = Set(t, [Idle("none") EXCEPT
                       !.pc = "cr_start", !.user = user,
                       !.arg = service_type, !.lat = pickup])
    /\ UNCHANGED <<providerprofile, servicerequest, providerapplication,
                   response, roundsUp>>

\* A slip of the handler: the request is inserted whatever the caller's role.
create_request_unchecked(t) ==
    /\ th[t].pc = "cr_start"
    /\ servicerequest' = create_document(servicerequest,
           [id |-> Len(servicerequest) + 1,
            motorist_id |-> th[t].user,
            service_type |-> th[t].arg,
            pickup_lat |-> th[t].lat,
            provider_id |-> None,
            status |-> "pending"])
    /\ response' = Append(response, NoResponse)
    /\ th' = Set(t, [th[t] EXCEPT !.pc = "cr_nearby",
                                  !.req = Len(servicerequest) + 1])
    /\ UNCHANGED <<providerprofile, providerapplication, roundsUp>>

\* The role check and create_document("servicerequest", request_doc).
create_request(t) ==
    /\ th[t].pc = "cr_start"
    /\ IF role(th[t].user) # "motorist"
       THEN /\ th' = Return(t, "403 Only motorists can create requests")
            /\ UNCHANGED <<servicerequest, response>>
       ELSE /\ servicerequest' = create_document(servicerequest,
                   [id |-> Len(servicerequest) + 1,
                    motorist_id |-> th[t].user,
                    service_type |-> th[t].arg,
                    pickup_lat |-> th[t].lat,
                    provider_id |-> None,
                    status |-> "pending"])
            /\ response' = Append(response, NoResponse)
            /\ th' = Set(t, [th[t] EXCEPT !.pc = "cr_nearby",
                                          !.req = Len(servicerequest) + 1])
    /\ UNCHANGED <<providerprofile, providerapplication, roundsUp>>

\* The request of another create_request that has read its nearby list and
\* not yet marked its provider busy (0 if there is none): the call this
\* call's nearby read races with.
Rival(t) ==
    IF \E u \in Threads \ {t} : th[u].pc \in {"cr_assign", "cr_busy"}
    THEN th[CHOOSE u \in Threads \ {t} : th[u].pc \in {"cr_assign", "cr_busy"}].req
    ELSE 0

\* the user ids of a nearby list, in its order
UserIds(nearby) == [i \in 1..Len(nearby) |-> nearby[i].user_id]

\* nearby = providers_nearby(pickup, service_type)["providers"]; an empty
\* list returns {"request_id": req_id, "match": None}.
create_request_nearby(t) ==
    /\ th[t].pc = "cr_nearby"
    /\ LET nearby == providers_nearby(providerprofile, th[t].lat, th[t].arg,
                                      DefaultRadius)
       IN  IF nearby # <<>>
           THEN /\ th' = Set(t, [th[t] EXCEPT !.pc = "cr_assign",
                                              !.nearby = nearby])
                /\ response' = [response EXCEPT ![th[t].req] =
                                  [@ EXCEPT !.pool = UserIds(nearby),
                                            !.rival = Rival(t)]]
           ELSE /\ th' = Return(t, "ok")
                /\ response' = [response EXCEPT ![th[t].req] =
                                  [@ EXCEPT !.returned = TRUE,
                                            !.rival = Rival(t)]]
    /\ UNCHANGED <<providerprofile, servicerequest, providerapplication,
                   roundsUp>>

\* update_one({"id": req_id}, {"$set": {provider_id: chosen, status: assigned}})
create_request_assign(t) ==
    /\ th[t].pc = "cr_assign"
    /\ servicerequest' = [servicerequest EXCEPT ![th[t].req] =
           [@ EXCEPT !.provider_id = th[t].nearby[1].user_id,
                     !.status = "assigned"]]
    /\ th' = Set(t, [th[t] EXCEPT !.pc = "cr_busy"])
    /\ UNCHANGED <<providerprofile, providerapplication, response, roundsUp>>

\* A slip of the busy write: the match is returned, no profile is written.
create_request_busy_skipped(t) ==
    /\ th[t].pc = "cr_busy"
    /\ response' = [response EXCEPT ![th[t].req] =
           [@ EXCEPT !.returned = TRUE,
                     !.provider_id = th[t].nearby[1].user_id,
                     !.eta_min = eta_min(th[t].nearby[1].distance_km)]]
    /\ th' = Return(t, "ok")
    /\ UNCHANGED <<providerprofile, servicerequest, providerapplication,
                   roundsUp>>

\* update_one({"user_id": chosen}, {"$set": {"status": "busy"}}), which writes
\* the first profile of that user, and the return of the match.
create_request_busy(t) ==
    /\ th[t].pc = "cr_busy"
    /\ LET chosen == th[t].nearby[1]
           i == FindProfile(providerprofile, chosen.user_id)
       IN  /\ providerprofile' =
                IF i = 0 THEN providerprofile
                ELSE [providerprofile EXCEPT ![i].status = "busy"]
           /\ response' = [response EXCEPT ![th[t].req] =
                  [@ EXCEPT !.returned = TRUE,
                            !.provider_id = chosen.user_id,
                            !.eta_min = eta_min(chosen.distance_km)]]
    /\ th' = Return(t, "ok")
    /\ UNCHANGED <<servicerequest, providerapplication, roundsUp>>

\* ------------------------------- POST /requests/{request_id}/status
\* The call arrives: path, query and caller are bound; a status outside the
\* parameter's Literal is refused by the framework before the handler runs.
update_request_status_call(t, user, request_id, status) ==
    /\ th[t].pc = "idle"
    /\ IF status \notin TargetStatuses
       THEN th' = Return(t, "422 Unprocessable Entity")
       ELSE th' = Set(t, [Idle("none") EXCEPT
                            !.pc = "us_start", !.user = user,
                            !.req = request_id, !.arg = status])
    /\ UNCHANGED <<providerprofile, servicerequest, providerapplication,
                   response, roundsUp>>

\* A slip of the check: a request no provider has been given yet passes.
NotYourJob_unset_passes(req, user) ==
    req.provider_id # None /\ req.provider_id \notin {user, user}

\* req.get("provider_id") not in (user.get("id"), str(user.get("_id"))): a
\* user's "id" mirrors its _id, so the tuple holds the caller's id twice.
NotYourJob(req, user) == req.provider_id \notin {user, user}

\* req.get("motorist_id") not in (user.get("id"), str(user.get("_id")))
NotYourRequest(req, user) == req.motorist_id \notin {user, user}

\* A slip of the handler: no 404, the update of a missing request matches
\* nothing and the call returns ok.
update_request_status_unfound_ok(t) ==
    /\ th[t].pc = "us_start"
    /\ LET c == th[t]
           i == FindRequest(servicerequest, c.req)
       IN  IF i = 0 THEN th' = Return(t, "ok")
           ELSE IF role(c.user) = "provider" /\ NotYourJob(servicerequest[i], c.user)
                THEN th' = Return(t, "403 Not your job")
           ELSE IF role(c.user) = "motorist" /\ NotYourRequest(servicerequest[i], c.user)
                THEN th' = Return(t, "403 Not your request")
           ELSE th' = Set(t, [c EXCEPT !.pc = "us_write",
                                       !.seen = servicerequest[i].status])
    /\ UNCHANGED <<providerprofile, servicerequest, providerapplication,
                   response, roundsUp>>

\* find_one({"id": request_id}) and, when it finds the request, the two
\* ownership checks; when it finds none the handler goes on to a second read.
update_request_status(t) ==
    /\ th[t].pc = "us_start"
    /\ LET c == th[t]
           i == FindRequest(servicerequest, c.req)
       IN  IF i = 0 THEN th' = Set(t, [c EXCEPT !.pc = "us_by_oid"])
           ELSE IF role(c.user) = "provider" /\ NotYourJob(servicerequest[i], c.user)
                THEN th' = Return(t, "403 Not your job")
           ELSE IF role(c.user) = "motorist" /\ NotYourRequest(servicerequest[i], c.user)
                THEN th' = Return(t, "403 Not your request")
           ELSE th' = Set(t, [c EXCEPT !.pc = "us_write",
                                       !.seen = servicerequest[i].status])
    /\ UNCHANGED <<providerprofile, servicerequest, providerapplication,
                   response, roundsUp>>

\* The second read, find_one({"_id": request_id}), and the 404: the path's
\* string equals no document's storage-native _id, so a request inserted
\* since the first read is not found either.
update_request_status_by_oid(t) ==
    /\ th[t].pc = "us_by_oid"
    /\ th' = Return(t, "404 Request not found")
    /\ UNCHANGED <<providerprofile, servicerequest, providerapplication,
                   response, roundsUp>>

\* A slip of the write: ending a request puts its provider back online.
update_request_status_write_releasing(t) ==
    /\ th[t].pc = "us_write"
    /\ servicerequest' = [servicerequest EXCEPT ![th[t].req].status = th[t].arg]
    /\ providerprofile' =
          [k \in DOMAIN providerprofile |->
              IF /\ th[t].arg \in {"completed", "cancelled"}
                 /\ providerprofile[k].user_id = servicerequest[th[t].req].provider_id
              THEN [providerprofile[k] EXCEPT !.status = "online"]
              ELSE providerprofile[k]]
    /\ th' = Return(t, "ok")
    /\ UNCHANGED <<providerapplication, response, roundsUp>>

\* A slip of the write: cancelling a request also drops its provider.
update_request_status_write_unassigning(t) ==
    /\ th[t].pc = "us_write"
    /\ servicerequest' = [servicerequest EXCEPT ![th[t].req] =
           [@ EXCEPT !.status = th[t].arg,
                     !.provider_id = IF th[t].arg = "cancelled" THEN None ELSE @]]
    /\ th' = Return(t, "ok")
    /\ UNCHANGED <<providerprofile, providerapplication, response, roundsUp>>

\* update_one({"id": request_id}, {"$set": {"status": status, ...}})
update_request_status_write(t) ==
    /\ th[t].pc = "us_write"
    /\ servicerequest' = [servicerequest EXCEPT ![th[t].req].status = th[t].arg]
    /\ th' = Return(t, "ok")
    /\ UNCHANGED <<providerprofile, providerapplication, response, roundsUp>>

\* ----------------------------------------------------------- store states
\* A profile as admin approval creates it, then as its provider reports it.
Profile(u, status, lat, service_types) ==
    [user_id |-> u, status |-> status, lat |-> lat, service_types |-> service_types]

\* the distances ending in 5 m that providers at these positions are at
TieDistances(positions) ==
    {d \in {distance_km(o, l) : o \in Pickups, l \in positions} : d % 10 = 5}

\* each such distance rounds one way, the same in every call
Rounding(positions) == roundsUp \in [TieDistances(positions) -> BOOLEAN]

Quiet ==
    /\ servicerequest = <<>>
    /\ providerapplication = <<>>
    /\ th = [t \in Threads |-> Idle("none")]
    /\ response = <<>>

\* room for one more request document
RoomForRequest(limit) == Len(servicerequest) + Cardinality(Inserters) < limit

\* ------------------------------------------------------- Spec: matching
\* Both providers approved for "tow"; neither has reported presence yet.
Init ==
    /\ providerprofile = << Profile("p1", "offline", NoCoord, <<"tow">>),
                            Profile("p2", "offline", NoCoord, <<"tow">>) >>
    /\ Quiet
    /\ Rounding(Positions)

\* Where a provider is when it reports a position: p1 stands 4 m inside the
\* 1.00 km mark and p2 1 m inside it, so that both round to 1.00 km.
ReportedPositions(u) == IF u = "p1" THEN {1004} ELSE {1001}

Presence(t) ==
    \/ \E u \in Providers \cup {"m1"}, s \in PresenceStatuses :
          \E l \in ReportedPositions(u) \cup {NoCoord} : provider_status(t, u, s, l)
    \/ provider_status_write(t)

Matching(t, limit) ==
    \/ \E u \in {"m1", "p1"}, s \in RequestServiceTypes, p \in Pickups :
          RoomForRequest(limit) /\ create_request_call(t, u, s, p)
    \/ create_request(t)
    \/ create_request_nearby(t)
    \/ create_request_assign(t)
    \/ create_request_busy(t)

Next == \E t \in Threads : Presence(t) \/ Matching(t, MaxRequests)

Spec == Init /\ [][Next]_vars

\* ------------------------------------------------ SpecLifecycle: status
\* One approved provider, reporting from its position or offline.
InitLifecycle ==
    /\ providerprofile \in
          { << Profile("p1", s, 1004, <<"tow">>) >> : s \in {"online", "offline"} }
    /\ Quiet
    /\ Rounding(Positions)

Lifecycle(t, limit) ==
    \/ \E u \in Users, r \in 1..limit, s \in TargetStatuses :
          update_request_status_call(t, u, r, s)
    \/ update_request_status(t)
    \/ update_request_status_by_oid(t)
    \/ update_request_status_write(t)

NextLifecycle ==
    \E t \in Threads : \/ Matching(t, MaxLifecycleRequests)
                       \/ Lifecycle(t, MaxLifecycleRequests)

SpecLifecycle == InitLifecycle /\ [][NextLifecycle]_vars

\* ------------------------------------------- SpecNearby: the nearby query
\* Two profiles in any presence, position and capability; the store is not
\* written, every step is a call of the endpoint.
QueryServiceTypes == {None, "", "tow", "fuel"}
QueryRadii == {1000, 1002, 1004, DefaultRadius}
ProfileServiceTypes == {<<>>, <<"tow">>}

InitNearby ==
    /\ providerprofile \in
          { << Profile("p1", s1, l1, c1), Profile("p2", s2, l2, c2) >> :
                s1 \in PresenceStatuses, s2 \in PresenceStatuses,
                l1 \in Positions \cup {NoCoord}, l2 \in Positions \cup {NoCoord},
                c1 \in ProfileServiceTypes, c2 \in ProfileServiceTypes }
    /\ Quiet
    /\ Rounding(Positions)

NextNearby ==
    \E o \in Pickups, s \in QueryServiceTypes, r \in QueryRadii :
        providers_nearby_call("t1", o, s, r)

SpecNearby == InitNearby /\ [][NextNearby]_vars

\* --------------------------------------------- SpecOnboarding: profiles
InitOnboarding ==
    /\ providerprofile = <<>>
    /\ Quiet
    /\ Rounding(Positions)

Onboarding(t) ==
    \/ \E u \in {"p1", "m1"}, s \in ApplicationServiceTypes : provider_apply(t, u, s)
    \/ \E u \in {"a1", "p1"}, a \in 1..MaxApplications, d \in ApplicationDecisions :
          admin_set_application_status(t, u, a, d)
    \/ admin_find_application(t)
    \/ admin_find_profile(t)
    \/ admin_create_profile(t)

NextOnboarding ==
    \E t \in Threads :
        \/ Onboarding(t)
        \/ \E u \in {"p1"}, s \in PresenceStatuses, l \in {1004, NoCoord} :
              provider_status(t, u, s, l)
        \/ provider_status_write(t)

SpecOnboarding == InitOnboarding /\ [][NextOnboarding]_vars

\* ------------------------------------------- SpecSequential: one thread
\* One pool thread: every handler runs from its call to its return with no
\* step of another handler in between.  Providers report from any position,
\* requests ask for a service the providers offer, one they do not offer,
\* or the empty string.
SequentialServiceTypes == {"tow", "fuel", ""}

\* a provider's own position, or the one beyond the default radius
SequentialPositions(u) ==
    {l \in Positions : l \in ReportedPositions(u) \/ l > DefaultRadius}

NextSequential ==
    \/ \E u \in Providers, s \in PresenceStatuses :
          \E l \in SequentialPositions(u) \cup {NoCoord} :
             provider_status("t1", u, s, l)
    \/ provider_status_write("t1")
    \/ \E u \in {"m1", "p1", "a1"}, s \in SequentialServiceTypes, p \in Pickups :
          RoomForRequest(MaxRequests) /\ create_request_call("t1", u, s, p)
    \/ create_request("t1")
    \/ create_request_nearby("t1")
    \/ create_request_assign("t1")
    \/ create_request_busy("t1")

SpecSequential == Init /\ [][NextSequential]_vars

\* ------------------------------------- SpecDispatch: all four handlers
\* One approved provider; requests are created, any user asks for any
\* request status to be set, anyone queries the providers nearby, and the
\* provider reports its presence, all interleaved.
NextDispatch ==
    \E t \in Threads :
        \/ Matching(t, MaxLifecycleRequests)
        \/ \E u \in Users, r \in 1..MaxLifecycleRequests, s \in RequestStatuses :
              update_request_status_call(t, u, r, s)
        \/ update_request_status(t)
        \/ update_request_status_by_oid(t)
        \/ update_request_status_write(t)
        \/ \E s \in PresenceStatuses : provider_status(t, "p1", s, NoCoord)
        \/ provider_status_write(t)
        \/ \E o \in Pickups, s \in {None, "fuel"} :
              providers_nearby_call(t, o, s, DefaultRadius)

SpecDispatch == InitLifecycle /\ [][NextDispatch]_vars

\* ------------------------------- SpecAssignment: several requests
\* One approved provider and room for several requests: requests are
\* created, one user of each role sets their status, and the provider
\* reports itself online or offline, all interleaved.
AssignmentStatuses == {"enroute", "cancelled", "completed"}

NextAssignment ==
    \E t \in Threads :
        \/ Matching(t, MaxRequests)
        \/ \E u \in {"m1", "p1", "a1"}, r \in 1..MaxRequests, s \in AssignmentStatuses :
              update_request_status_call(t, u, r, s)
        \/ update_request_status(t)
        \/ update_request_status_by_oid(t)
        \/ update_request_status_write(t)
        \/ \E s \in {"online", "offline"} : provider_status(t, "p1", s, NoCoord)
        \/ provider_status_write(t)

SpecAssignment == InitLifecycle /\ [][NextAssignment]_vars

\* ------------------------------------------------- SpecEta: the estimate
\* Both providers online, each at a distance on one side or the other of a
\* multiple of 0.6 km or of the radius, or ending in 5 m; requests are
\* created one at a time.
InitEta ==
    /\ providerprofile \in
          { << Profile("p1", "online", l1, <<"tow">>),
               Profile("p2", "online", l2, <<"tow">>) >> :
                l1 \in EtaPositions, l2 \in EtaPositions }
    /\ Quiet
    /\ Rounding(EtaPositions)

NextEta == Matching("t1", MaxRequests)

SpecEta == InitEta /\ [][NextEta]_vars

\* ================================================================ claims
ActiveStatuses == {"assigned", "enroute", "in_progress"}

\* requests r1, r2 come from create_request calls one of which read its
\* nearby list while the other was between its own read and its busy write
Raced(r1, r2) == response[r1].rival = r2 \/ response[r2].rival = r1

\* request r ended assigned to provider p, and its call returned that match
EndedAssigned(r, p) ==
    /\ response[r].provider_id = p
    /\ servicerequest[r].provider_id = p
    /\ servicerequest[r].status = "assigned"

\* request r ended pending, and its call returned a null match
EndedPending(r) ==
    /\ response[r].provider_id = None
    /\ servicerequest[r].provider_id = None
    /\ servicerequest[r].status = "pending"

\* C1: when two create_request calls race and each found the same single
\* eligible provider P in range, then once both have returned exactly one of
\* the two requests is assigned to P with that match returned, and the other
\* is pending with a null match.
C1_SoleProviderAssignedOnce ==
    \A r1 \in DOMAIN response, r2 \in DOMAIN response :
        ( /\ r1 # r2
          /\ response[r1].returned /\ response[r2].returned
          /\ Raced(r1, r2)
          /\ Len(response[r1].pool) = 1
          /\ response[r2].pool = response[r1].pool )
        => LET P == response[r1].pool[1]
           IN  \/ EndedAssigned(r1, P) /\ EndedPending(r2)
               \/ EndedAssigned(r2, P) /\ EndedPending(r1)

\* C2: in every state each provider is the provider_id of at most one request
\* whose status is assigned, enroute or in_progress.
C2_AtMostOneActivePerProvider ==
    \A p \in Users :
        Cardinality({ r \in DOMAIN servicerequest :
                        /\ servicerequest[r].provider_id = p
                        /\ servicerequest[r].status \in ActiveStatuses }) <= 1

\* C6: the assignment of a request and the busy write of its provider are one
\* unit: in no state does the store hold a request assigned to a provider by
\* a create_request call that has not made its busy write for that provider
\* (the busy write is the call's last store call, in the step it returns in).
C6_AssignAndBusyAtomic ==
    \A r \in DOMAIN servicerequest :
        servicerequest[r].status = "assigned"
        => /\ response[r].returned
           /\ response[r].provider_id = servicerequest[r].provider_id

\* C7: a create_request call that races with another for the same nearest
\* provider never returns a match naming the provider the other took: the
\* two matches differ, the loser's being the next provider of its own nearby
\* list, or null when that list holds no other provider.
C7_LoserRematches ==
    \A r1 \in DOMAIN response, r2 \in DOMAIN response :
        ( /\ r1 # r2
          /\ response[r1].returned /\ response[r2].returned
          /\ Raced(r1, r2)
          /\ response[r1].pool # <<>> /\ response[r2].pool # <<>>
          /\ response[r1].pool[1] = response[r2].pool[1] )
        => LET P == response[r1].pool[1]
               Lost(r) ==
                   IF Len(response[r].pool) >= 2
                   THEN response[r].provider_id = response[r].pool[2]
                   ELSE response[r].provider_id = None
           IN  /\ response[r1].provider_id # response[r2].provider_id
               /\ \/ response[r1].provider_id = P /\ Lost(r2)
                  \/ response[r2].provider_id = P /\ Lost(r1)

\* profile p is one providers_nearby keeps for a create_request at origin for
\* service_type: online, located, capable, within the default 30 km
EligibleForRequest(p, origin, service_type) ==
    /\ p.status = "online"
    /\ p.lat # NoCoord
    /\ Contains(p.service_types, service_type)
    /\ distance_km(origin, p.lat) <= DefaultRadius

\* C10: the nearby list a create_request call reads is in ascending order of
\* true (unrounded) distance, and the provider it chooses is one no eligible
\* provider is strictly closer to the pickup than.
C10_NearestChosen ==
    [][ \A t \in Threads :
          (th[t].pc = "cr_nearby" /\ th'[t].pc = "cr_assign")
          => LET list == th'[t].nearby
                 origin == th[t].lat
             IN  /\ \A i \in 1..Len(list), j \in 1..Len(list) :
                        i < j => distance_km(origin, list[i].lat)
                                    <= distance_km(origin, list[j].lat)
                 /\ \A k \in DOMAIN providerprofile :
                        EligibleForRequest(providerprofile[k], origin, th[t].arg)
                        => distance_km(origin, providerprofile[k].lat)
                              >= distance_km(origin, list[1].lat) ]_vars

TerminalStatuses == {"completed", "cancelled"}

LegalTransitions ==
    {<<"pending", "assigned">>, <<"assigned", "enroute">>,
     <<"enroute", "in_progress">>, <<"in_progress", "completed">>}
    \cup { <<s, "cancelled">> : s \in {"pending"} \cup ActiveStatuses }

\* C3: once a request is completed or cancelled its status never changes
\* again, whatever step is taken (a status write of any caller, or the
\* assignment write of the create_request call that created the request).
C3_TerminalIsFinal ==
    [][ \A r \in DOMAIN servicerequest :
          servicerequest[r].status \in TerminalStatuses
          => servicerequest'[r].status = servicerequest[r].status ]_vars

\* C4: every change of a request's status is a step of the transition table:
\* pending -> assigned -> enroute -> in_progress -> completed, or a
\* non-terminal status -> cancelled.
C4_TransitionTable ==
    [][ \A r \in DOMAIN servicerequest :
          servicerequest'[r].status # servicerequest[r].status
          => <<servicerequest[r].status, servicerequest'[r].status>>
                \in LegalTransitions ]_vars

\* C5: when update_request_status runs its checks on an existing request, a
\* provider caller that is not the request's provider_id (unset included) and
\* a motorist caller that is not its motorist_id get 403 and the requests are
\* left as they were; an admin caller always goes on to the write.
C5_OwnershipEnforced ==
    [][ \A t \in Threads :
          ( /\ th[t].pc = "us_start"
            /\ th'[t] # th[t]
            /\ FindRequest(servicerequest, th[t].req) # 0 )
          => LET req == servicerequest[th[t].req]
                 u == th[t].user
             IN  /\ (role(u) = "provider" /\ req.provider_id # u)
                    => /\ th'[t].pc = "idle"
                       /\ th'[t].result = "403 Not your job"
                       /\ servicerequest' = servicerequest
                 /\ (role(u) = "motorist" /\ req.motorist_id # u)
                    => /\ th'[t].pc = "idle"
                       /\ th'[t].result = "403 Not your request"
                       /\ servicerequest' = servicerequest
                 /\ role(u) = "admin" => th'[t].pc = "us_write" ]_vars

\* C5's case: a provider has been refused on a request that has no provider
\* yet, and a motorist on a request of another motorist.
C5_Witness ==
    /\ th["t1"].result = "403 Not your job"
    /\ th["t2"].result = "403 Not your request"
    /\ \E r \in DOMAIN servicerequest : servicerequest[r].provider_id = None

\* C8: a status write is applied against the status its call read: a call
\* whose request another status call has moved on since that read (the
\* request now holds a status only update_request_status writes, and not the
\* one read) writes nothing and does not return ok.
C8_ConditionalStatusWrite ==
    [][ \A t \in Threads :
          ( /\ th[t].pc = "us_write"
            /\ th'[t].pc = "idle"
            /\ servicerequest[th[t].req].status # th[t].seen
            /\ servicerequest[th[t].req].status \in TargetStatuses )
          => /\ servicerequest' = servicerequest
             /\ th'[t].result # "ok" ]_vars

\* profile p qualifies for a nearby query: online, located, offering the
\* service type when the query filters by one, at a true distance <= radius
Qualifies(p, origin, service_type, radius_km, filtered) ==
    /\ p.status = "online"
    /\ p.lat # NoCoord
    /\ filtered => Contains(p.service_types, service_type)
    /\ distance_km(origin, p.lat) <= radius_km

\* the entries of a returned nearby list are exactly the profiles `want`
ReturnsExactly(list, want) ==
    /\ Len(list) = Cardinality(want)
    /\ { list[i].user_id : i \in 1..Len(list) }
          = { providerprofile[k].user_id : k \in want }

\* C9 as stated: a nearby query returns exactly the qualifying profiles,
\* filtering by the service type whenever one is given (any string).
C9_ExactlyQualifying_AnyGiven ==
    \A t \in Threads :
        th[t].result = "200 providers"
        => ReturnsExactly(th[t].nearby,
              { k \in DOMAIN providerprofile :
                  Qualifies(providerprofile[k], th[t].lat, th[t].arg,
                            th[t].radius, th[t].arg # None) })

\* C9 amended: a nearby query returns exactly the qualifying profiles,
\* filtering by the service type when a non-empty one is given; an absent or
\* empty service type filters nothing.
C9_ExactlyQualifying ==
    \A t \in Threads :
        th[t].result = "200 providers"
        => ReturnsExactly(th[t].nearby,
              { k \in DOMAIN providerprofile :
                  Qualifies(providerprofile[k], th[t].lat, th[t].arg,
                            th[t].radius, th[t].arg \notin {None, ""}) })

\* C9's case: a query for "tow" within 1.002 km has returned one provider and
\* left out an online "tow" provider at 1.004 km, which rounds to 1.00 km.
C9_Witness ==
    /\ th["t1"].result = "200 providers"
    /\ th["t1"].arg = "tow" /\ th["t1"].radius = 1002
    /\ Len(th["t1"].nearby) = 1
    /\ \E k \in DOMAIN providerprofile :
          /\ providerprofile[k].status = "online"
          /\ providerprofile[k].lat = 1004
          /\ Contains(providerprofile[k].service_types, "tow")

\* C11: a create_request call of a motorist that runs with no step of
\* another handler in between, and for which a provider eligible for the
\* request (online, located, offering the service type, within the default
\* 30 km) exists, returns ok with a match naming a provider P; on return the
\* new request is assigned with provider_id = P, P's profile is busy, and
\* the returned ETA is at least 3.
C11_UninterleavedMatch ==
    [][ \A t \in Threads :
          ( /\ th[t].pc \in {"cr_nearby", "cr_busy"}
            /\ th'[t].pc = "idle"
            /\ \E k \in DOMAIN providerprofile :
                  EligibleForRequest(providerprofile[k], th[t].lat, th[t].arg) )
          => LET r == th[t].req
                 P == response'[r].provider_id
             IN  /\ th'[t].result = "ok"
                 /\ response'[r].returned
                 /\ P # None
                 /\ response'[r].eta_min >= 3
                 /\ servicerequest'[r].status = "assigned"
                 /\ servicerequest'[r].provider_id = P
                 /\ \E k \in DOMAIN providerprofile :
                       /\ providerprofile[k].user_id = P
                       /\ providerprofile[k].status = "online"
                       /\ providerprofile'[k].status = "busy" ]_vars

\* C11's case: a call has returned a match for a provider that is now busy,
\* and the request it created is assigned to that provider.
C11_Witness ==
    /\ th["t1"].result = "ok"
    /\ \E r \in DOMAIN response :
          /\ response[r].returned
          /\ response[r].provider_id # None
          /\ servicerequest[r].status = "assigned"
          /\ servicerequest[r].provider_id = response[r].provider_id
          /\ \E k \in DOMAIN providerprofile :
                /\ providerprofile[k].user_id = response[r].provider_id
                /\ providerprofile[k].status = "busy"

\* C12 as stated: a create_request call that reads the profiles when none is
\* online, located, within the default 30 km and lists the request's service
\* type returns ok with a null match, leaves its request pending with no
\* provider_id, and changes no profile.
C12_NoMatch_Listed ==
    [][ \A t \in Threads :
          ( /\ th[t].pc = "cr_nearby"
            /\ th'[t] # th[t]
            /\ ~ \E k \in DOMAIN providerprofile :
                   EligibleForRequest(providerprofile[k], th[t].lat, th[t].arg) )
          => LET r == th[t].req
             IN  /\ th'[t].pc = "idle"
                 /\ th'[t].result = "ok"
                 /\ response'[r].returned
                 /\ response'[r].provider_id = None
                 /\ servicerequest'[r].status = "pending"
                 /\ servicerequest'[r].provider_id = None
                 /\ providerprofile' = providerprofile ]_vars

\* C12 amended: a create_request call that reads the profiles when none is
\* online, located and within the default 30 km, or none of those lists the
\* request's non-empty service type, returns ok with a null match, leaves
\* its request pending with no provider_id, and changes no profile.  (A
\* request whose service type is the empty string is matched on presence and
\* distance alone.)
C12_NoMatch ==
    [][ \A t \in Threads :
          ( /\ th[t].pc = "cr_nearby"
            /\ th'[t] # th[t]
            /\ ~ \E k \in DOMAIN providerprofile :
                   Qualifies(providerprofile[k], th[t].lat, th[t].arg,
                             DefaultRadius, th[t].arg # "") )
          => LET r == th[t].req
             IN  /\ th'[t].pc = "idle"
                 /\ th'[t].result = "ok"
                 /\ response'[r].returned
                 /\ response'[r].provider_id = None
                 /\ servicerequest'[r].status = "pending"
                 /\ servicerequest'[r].provider_id = None
                 /\ providerprofile' = providerprofile ]_vars

\* C12's case: a request for a service no provider lists has returned a null
\* match and is pending, while a provider is online within the radius.
C12_Witness ==
    /\ th["t1"].result = "ok"
    /\ \E r \in DOMAIN response :
          /\ response[r].returned
          /\ response[r].provider_id = None
          /\ servicerequest[r].service_type = "fuel"
          /\ servicerequest[r].status = "pending"
          /\ servicerequest[r].provider_id = None
          /\ \E k \in DOMAIN providerprofile :
                /\ providerprofile[k].status = "online"
                /\ providerprofile[k].lat = 1004

\* C13: a create_request call whose caller is not a motorist (a provider or
\* an admin) returns 403 "Only motorists can create requests", and that step
\* inserts no request and changes no request, profile or application.
C13_NonMotoristForbidden ==
    [][ \A t \in Threads :
          ( /\ th[t].pc = "cr_start"
            /\ th'[t] # th[t]
            /\ role(th[t].user) \in {"provider", "admin"} )
          => /\ th'[t].pc = "idle"
             /\ th'[t].result = "403 Only motorists can create requests"
             /\ servicerequest' = servicerequest
             /\ providerprofile' = providerprofile
             /\ providerapplication' = providerapplication
             /\ response' = response ]_vars

\* C13's case: a create_request call has been refused and the store holds no
\* request, while a provider is online and could have been matched.
C13_Witness ==
    /\ th["t1"].result = "403 Only motorists can create requests"
    /\ servicerequest = <<>>
    /\ \E k \in DOMAIN providerprofile :
          /\ providerprofile[k].status = "online"
          /\ providerprofile[k].lat = 1004

\* C14: a request whose provider_id is set keeps a provider_id in every
\* step: no status write of any caller, no step of another create_request
\* call and no presence report of the provider sets it back to unset or
\* removes the request.
C14_ProviderIdNeverCleared ==
    [][ \A r \in DOMAIN servicerequest :
          servicerequest[r].provider_id # None
          => /\ r \in DOMAIN servicerequest'
             /\ servicerequest'[r].provider_id # None ]_vars

\* C14's case: two create_request calls have matched p1 one after the other
\* (neither read its nearby list while the other was between its read and
\* its busy write, so p1 reported itself online in between), the first
\* request has been cancelled, p1 has reported itself offline, and both
\* requests still name p1.
C14_Witness ==
    /\ Len(servicerequest) = 2
    /\ \A r \in DOMAIN servicerequest :
          /\ servicerequest[r].provider_id = "p1"
          /\ response[r].returned
          /\ response[r].pool = <<"p1">>
          /\ response[r].rival = 0
    /\ servicerequest[1].status = "cancelled"
    /\ servicerequest[2].status = "assigned"
    /\ providerprofile[1].status = "offline"

\* C15: in every state the profile collection holds at most one profile per
\* user_id, whatever the interleaving of that user's presence reports and of
\* the admin approval of that user's application.
C15_OneProfilePerUser ==
    \A i \in DOMAIN providerprofile, j \in DOMAIN providerprofile :
        providerprofile[i].user_id = providerprofile[j].user_id => i = j

\* C16: when update_request_status looks up a request id that no request
\* has, the call goes through its second lookup and returns 404 "Request
\* not found" whatever the caller's role (also when a request with that id
\* is inserted between the two lookups), and neither step creates or
\* changes a request, profile or application.
C16_UnknownRequestNotFound ==
    [][ \A t \in Threads :
          /\ ( /\ th[t].pc = "us_start"
               /\ th'[t] # th[t]
               /\ \A r \in DOMAIN servicerequest :
                     servicerequest[r].id # th[t].req )
             => /\ th'[t] = [th[t] EXCEPT !.pc = "us_by_oid"]
                /\ servicerequest' = servicerequest
                /\ providerprofile' = providerprofile
                /\ providerapplication' = providerapplication
                /\ response' = response
          /\ (th[t].pc = "us_by_oid" /\ th'[t] # th[t])
             => /\ th'[t].pc = "idle"
                /\ th'[t].result = "404 Request not found"
                /\ servicerequest' = servicerequest
                /\ providerprofile' = providerprofile
                /\ providerapplication' = providerapplication
                /\ response' = response
          /\ th'[t].pc = "us_by_oid"
             => th[t].pc \in {"us_start", "us_by_oid"} ]_vars

\* C16's case: a status call has been refused with 404 while the store holds
\* no request, and a provider profile exists that it could have touched.
C16_Witness ==
    /\ \E t \in Threads : th[t].result = "404 Request not found"
    /\ servicerequest = <<>>
    /\ providerprofile # <<>>

\* the statuses a caller may ask for
CallerSettable == {"enroute", "in_progress", "completed", "cancelled"}

\* C17: no step of update_request_status makes a request pending or
\* assigned: a call asking for a status other than enroute, in_progress,
\* completed or cancelled never reaches the handler, the status write sets
\* one of those four, and the only step that changes a request's status to
\* pending or assigned is the assignment write of the create_request call
\* that created the request.
C17_SystemOnlyStatuses ==
    [][ /\ \A t \in Threads :
             /\ th'[t].pc = "us_start" => th'[t].arg \in CallerSettable
             /\ (th[t].pc = "us_write" /\ th'[t] # th[t])
                => servicerequest'[th[t].req].status \in CallerSettable
        /\ \A r \in DOMAIN servicerequest :
             ( /\ servicerequest'[r].status # servicerequest[r].status
               /\ servicerequest'[r].status \in {"pending", "assigned"} )
             => /\ servicerequest'[r].status = "assigned"
                /\ \E t \in Threads : /\ th[t].pc = "cr_assign"
                                      /\ th[t].req = r
                                      /\ th'[t].pc = "cr_busy" ]_vars

\* C17's case: a status call asking for pending or assigned has been refused
\* and another has written enroute to an assigned request.
C17_Witness ==
    /\ th["t1"].result = "422 Unprocessable Entity"
    /\ th["t2"].result = "ok"
    /\ \E r \in DOMAIN servicerequest :
          /\ servicerequest[r].provider_id # None
          /\ servicerequest[r].status = "enroute"

\* C18: a call of the nearby endpoint changes no provider profile, no
\* service request and no application, whatever it returns.
C18_NearbyReadOnly ==
    [][ \A t \in Threads :
          (th'[t] # th[t] /\ th'[t].result = "200 providers")
          => /\ providerprofile' = providerprofile
             /\ servicerequest' = servicerequest
             /\ providerapplication' = providerapplication
             /\ response' = response ]_vars

\* C18's case: a nearby query has returned the online provider, which is
\* still online, while the store holds a request.
C18_Witness ==
    \E t \in Threads :
        /\ th[t].result = "200 providers"
        /\ th[t].nearby # <<>>
        /\ providerprofile[1].status = "online"
        /\ servicerequest # <<>>

\* C19: create_request writes busy only to a profile that is online at that
\* write, and assigns its request only to a provider whose profile is online
\* at the assignment write: a provider that has gone offline or been set
\* busy since the call's nearby read is neither flipped to busy nor given
\* the request.
C19_BusyOnlyIfOnline ==
    [][ \A t \in Threads :
          /\ (th[t].pc = "cr_assign" /\ th'[t] # th[t])
             => \/ servicerequest'[th[t].req].provider_id = None
                \/ \E k \in DOMAIN providerprofile :
                      /\ providerprofile[k].user_id
                            = servicerequest'[th[t].req].provider_id
                      /\ providerprofile[k].status = "online"
          /\ (th[t].pc = "cr_busy" /\ th'[t] # th[t])
             => \A k \in DOMAIN providerprofile :
                   providerprofile'[k].status # providerprofile[k].status
                   => /\ providerprofile[k].status = "online"
                      /\ providerprofile'[k].status = "busy" ]_vars

\* C20: no step of update_request_status changes a provider profile, so the
\* provider of a request that becomes completed or cancelled keeps the
\* status it had (busy, once matched); a profile becomes online only by the
\* write of a presence report of its own user asking for online, and the
\* nearby endpoint returns only providers whose profile is online.
C20_StatusLeavesProfiles ==
    [][ /\ \A t \in Threads :
             /\ (th[t].pc \in {"us_start", "us_by_oid", "us_write"}
                   /\ th'[t] # th[t])
                => providerprofile' = providerprofile
             /\ (th'[t] # th[t] /\ th'[t].result = "200 providers")
                => \A i \in DOMAIN th'[t].nearby :
                      \E k \in DOMAIN providerprofile :
                         /\ providerprofile[k].user_id = th'[t].nearby[i].user_id
                         /\ providerprofile[k].status = "online"
        /\ \A k \in DOMAIN providerprofile :
             (providerprofile[k].status # "online"
                /\ providerprofile'[k].status = "online")
             => \E t \in Threads :
                   /\ th[t].pc = "ps_write" /\ th'[t].pc = "idle"
                   /\ th[t].user = providerprofile[k].user_id
                   /\ th[t].arg = "online" ]_vars

\* C20's case: the request given to p1 is completed, p1's profile is still
\* busy, and a nearby query made since has returned nobody.
C20_Witness ==
    /\ \E r \in DOMAIN servicerequest :
          /\ servicerequest[r].provider_id = "p1"
          /\ servicerequest[r].status = "completed"
          /\ response[r].returned
    /\ providerprofile[1].status = "busy"
    /\ th["t1"].result = "ok"
    /\ th["t2"].result = "200 providers" /\ th["t2"].nearby = <<>>

\* C21 as stated: when create_request returns a match, the ETA is
\* max(3, floor(d / 0.6)) minutes for d the distance in km from the chosen
\* provider to the pickup (600 m a minute), so it is at least 3 and does
\* not decrease as d grows.
C21_EtaOfDistance ==
    [][ \A t \in Threads :
          (th[t].pc = "cr_busy" /\ th'[t] # th[t])
          => LET d == distance_km(th[t].lat, th[t].nearby[1].lat)
             IN  /\ response'[th[t].req].provider_id = th[t].nearby[1].user_id
                 /\ response'[th[t].req].eta_min = Max(3, d \div 600)
                 /\ response'[th[t].req].eta_min >= 3 ]_vars

\* C21 amended: when create_request returns a match, the ETA is
\* max(3, floor(d / 0.6)) minutes for d the distance in km from the chosen
\* provider to the pickup rounded to two decimals, as the nearby list
\* reports it; it is at least 3, and over the providers' distances it does
\* not decrease as the distance grows.
C21_EtaOfRoundedDistance ==
    [][ /\ \A t \in Threads :
             (th[t].pc = "cr_busy" /\ th'[t] # th[t])
             => LET d == distance_km(th[t].lat, th[t].nearby[1].lat)
                IN  /\ response'[th[t].req].provider_id = th[t].nearby[1].user_id
                    /\ response'[th[t].req].eta_min = Max(3, Rounded(d) \div 600)
                    /\ response'[th[t].req].eta_min >= 3
        /\ \A r1 \in DOMAIN response', r2 \in DOMAIN response' :
             LET Dist(r) ==
                   distance_km(servicerequest'[r].pickup_lat,
                      providerprofile'[FindProfile(providerprofile',
                                         response'[r].provider_id)].lat)
             IN  ( /\ response'[r1].provider_id # None
                   /\ response'[r2].provider_id # None
                   /\ Dist(r1) <= Dist(r2) )
                 => response'[r1].eta_min <= response'[r2].eta_min ]_vars

\* C21's case: a call has returned a match for the provider at 2.397 km,
\* which the nearby list reports as 2.40 km, with an ETA of 4 minutes.
C21_Witness ==
    \E r \in DOMAIN response :
        /\ response[r].returned
        /\ response[r].provider_id # None
        /\ response[r].eta_min = 4
        /\ providerprofile[FindProfile(providerprofile,
                                       response[r].provider_id)].lat = 2397

\* C22: in every state a request whose status is assigned, enroute,
\* in_progress or completed has a provider_id; a request without one is
\* pending or cancelled, whatever status calls its motorist or an admin has
\* made.
C22_ServedImpliesProvider ==
    \A r \in DOMAIN servicerequest :
        /\ servicerequest[r].status
              \in {"assigned", "enroute", "in_progress", "completed"}
           => servicerequest[r].provider_id # None
        /\ servicerequest[r].provider_id = None
           => servicerequest[r].status \in {"pending", "cancelled"}
====
